---- MODULE Spec2Model ----
(***************************************************************************)
(* Model of src/main.ts: the bootstrap of the web server and the request   *)
(* handlers it registers (security headers, static assets, the index       *)
(* document, the login wallpaper, the /api prefix and the SPA filter).     *)
(***************************************************************************)
EXTENDS Integers, Sequences, FiniteSets, TLC

(* ------------------------------------------------------------------ *)
(* Bounds of the model                                                 *)
(* ------------------------------------------------------------------ *)

\* total number of requests the server receives in one behaviour
MaxRequests == 3

\* connections that can be in flight at the same time
ReqIds == {"c1", "c2"}

(* ------------------------------------------------------------------ *)
(* State                                                               *)
(* ------------------------------------------------------------------ *)

VARIABLES
    phase,          \* where bootstrap() is: start, configLoaded, created,
                    \* listening, failed
    startupConfig,  \* the result of getStartupConfig()
    config,         \* what ConfigService holds
    fs,             \* the file at the configured wallpaper path
    reqs,           \* per connection: the request in flight and its reply;
                    \* checked/read count the calls of pathExists/readFile,
                    \* fileAtCheck/fileAtRead record the file at those calls
    log,            \* lines written through the logger
    received        \* number of requests received so far

vars == <<phase, startupConfig, config, fs, reqs, log, received>>

(* ------------------------------------------------------------------ *)
(* JavaScript values                                                   *)
(* ------------------------------------------------------------------ *)

Undef == [t |-> "undefined"]
Str(s) == [t |-> "string", v |-> s]

\* `${v}` : the string conversion a template literal applies
TemplateString(v) == IF v.t = "undefined" THEN "undefined" ELSE v.v

\* ToBoolean(v) for the values above
Truthy(v) == v.t = "string" /\ v.v # ""

(* ------------------------------------------------------------------ *)
(* Inputs                                                              *)
(* ------------------------------------------------------------------ *)

\* values of the request's host header (Undef: the header is absent)
HostHeaders == {Undef, Str("example.com:8080"), Str("other.test")}

\* values of startupConfig.cspWsOveride
WsOverrides == {Undef, Str(""), Str("wss://extra.example")}

\* values of configService.ui.loginWallpaper
WallpaperPaths == {Undef, Str(""), Str("/data/wallpaper.jpg")}

\* contents of the file at the configured wallpaper path
Absent == "absent"
FileContents == {"jpgA", "jpgB"}

\* files of the static bundle under <base>/public
BundleFiles == {"/index.html", "/main.js", "/assets/snapshot.jpg"}

\* routes of the application's controllers, relative to the global prefix
ApiRoutes == {"/status"}

Methods == {"GET", "POST"}
Paths == {"/", "/assets/snapshot.jpg", "/main.js", "/api/status",
          "/api/missing", "/foo/bar/baz"}

(* ------------------------------------------------------------------ *)
(* Responses                                                           *)
(* ------------------------------------------------------------------ *)

NoHeaders == [n \in {} |-> ""]
SetHeader(h, n, v) == (n :> v) @@ h
HasHeader(h, n) == n \in DOMAIN h

NoBody == [kind |-> "none"]
FileBody(f) == [kind |-> "file", file |-> f]
BytesBody(b) == [kind |-> "bytes", data |-> b]
TextBody(s) == [kind |-> "text", data |-> s]


\* a fresh reply: status 200 until a handler changes it
NewResponse(csp) == [status |-> 200, headers |-> NoHeaders, body |-> NoBody,
                     csp |-> csp]

Code(res, c) == [res EXCEPT !.status = c]
Header(res, n, v) == [res EXCEPT !.headers = SetHeader(@, n, v)]
Type(res, t) == Header(res, "Content-Type", t)
Send(res, b) == [res EXCEPT !.body = b]

\* reply.sendFile(name): the named file of the static bundle becomes the body;
\* the headers the handler has set stay as they are
SendFile(res, f) == Send(res, FileBody(f))

(* ------------------------------------------------------------------ *)
(* helmet security headers                                             *)
(* ------------------------------------------------------------------ *)

\* startupConfig.cspWsOveride || ''
WsOverrideOrEmpty(cfg) ==
    IF Truthy(cfg.cspWsOveride) THEN cfg.cspWsOveride.v ELSE ""


\* variant of ConnectSrcCallback: the override is interpolated without || ''
ConnectSrcCallbackRawOverride(req, cfg) ==
    "wss://" \o TemplateString(req.host) \o " ws://" \o TemplateString(req.host)
        \o " " \o TemplateString(cfg.cspWsOveride)

\* the connectSrc callback: one source string computed from the request
ConnectSrcCallback(req, cfg) ==
    "wss://" \o TemplateString(req.host) \o " ws://" \o TemplateString(req.host)
        \o " " \o WsOverrideOrEmpty(cfg)

\* the directives of the content security policy, each a list of sources
\* joined by one space
CspDirectives(req, cfg) ==
    [defaultSrc |-> "'self'",
     scriptSrc  |-> "'self' 'unsafe-inline' 'unsafe-eval'",
     styleSrc   |-> "'self' 'unsafe-inline'",
     imgSrc     |-> "'self' data: https://raw.githubusercontent.com",
     workerSrc  |-> "blob:",
     connectSrc |-> "'self'" \o " " \o ConnectSrcCallback(req, cfg)]

(* ------------------------------------------------------------------ *)
(* Handlers                                                            *)
(* ------------------------------------------------------------------ *)


\* variant of StaticSetHeaders: the static root sets no header
StaticSetHeadersOmitted(res) == res

\* setHeaders of the static asset root
StaticSetHeaders(res) ==
    Header(res, "Cache-Control", "public,max-age=31536000,immutable")

\* a file of the bundle served by the static asset root
ServeStatic(res, f) == StaticSetHeaders(Send(res, FileBody(f)))


\* variant of IndexHandler: index.html goes out with the long cache timeout
IndexHandlerCached(res) ==
    SendFile(
        Header(Type(res, "text/html"),
               "Cache-Control", "public,max-age=31536000,immutable"),
        "/index.html")

\* GET / : index.html without a cache
IndexHandler(res) ==
    SendFile(
        Header(
            Header(
                Header(Type(res, "text/html"),
                       "Cache-Control", "no-cache, no-store, must-revalidate"),
                "Pragma", "no-cache"),
            "Expires", "0"),
        "/index.html")


\* variant of PathExists: a miss, once logged, is remembered
PathExistsRemembered(file) ==
    file # Absent /\ \A i \in 1..Len(log) : log[i].level # "error"

\* fs.pathExists(p) against the file system as it is when the check runs
PathExists(file) == file # Absent

\* the error line the wallpaper handler logs
WallpaperMissingLog(wp) ==
    [level |-> "error",
     msg |-> "Custom Login Wallpaper does not exist: " \o TemplateString(wp)]


\* variant of WallpaperNotFound: the status code is left at its default
WallpaperNotFoundNoCode(res) == Send(res, TextBody("Not Found"))

\* GET /assets/snapshot.jpg, custom wallpaper missing
WallpaperNotFound(res) == Send(Code(res, 404), TextBody("Not Found"))


\* variant of WallpaperHeaders: the custom image gets the headers of index.html
WallpaperHeadersNoCache(res) ==
    Header(Type(res, "image/jpg"),
           "Cache-Control", "no-cache, no-store, must-revalidate")

\* GET /assets/snapshot.jpg, custom wallpaper found: headers set before the read
WallpaperHeaders(res) ==
    Header(Type(res, "image/jpg"),
           "Cache-Control", "public,max-age=31536000,immutable")


\* variant of WallpaperSend: the bundled image is sent instead of the bytes read
WallpaperSendBundled(res, bytes) == SendFile(res, "/assets/snapshot.jpg")

\* GET /assets/snapshot.jpg, the bytes read from the custom wallpaper
WallpaperSend(res, bytes) == Send(res, BytesBody(bytes))

\* GET /assets/snapshot.jpg, no custom wallpaper: the bundled image
WallpaperDefault(res) ==
    SendFile(Header(res, "Cache-Control", "public,max-age=31536000,immutable"),
             "/assets/snapshot.jpg")

\* fs.readFile rejects inside the handler: nothing in the handler catches it,
\* the rejection leaves the handler and the server answers with its own error
HandlerRejected(res) ==
    Send(Code(res, 500), [kind |-> "error", code |-> "ENOENT"])

(* ------------------------------------------------------------------ *)
(* Routing                                                             *)
(* ------------------------------------------------------------------ *)


\* variant of GlobalPrefix: the API is mounted elsewhere
GlobalPrefixOther == "/rest"

GlobalPrefix == "/api"

IsUnderPrefix(p) ==
    \/ p = GlobalPrefix
    \/ /\ Len(p) > Len(GlobalPrefix)
       /\ SubSeq(p, 1, Len(GlobalPrefix) + 1) = GlobalPrefix \o "/"

StripPrefix(p) == SubSeq(p, Len(GlobalPrefix) + 1, Len(p))

\* which registered handler a request reaches; "none" when nothing matches
Route(m, p) ==
    CASE m = "GET" /\ p = "/" -> "index"
      [] m = "GET" /\ p = "/assets/snapshot.jpg" -> "wallpaper"
      [] m = "GET" /\ p \in BundleFiles -> "static"
      [] IsUnderPrefix(p) /\ <<m, StripPrefix(p)>> \in {<<"GET", a>> : a \in ApiRoutes}
            -> "api"
      [] OTHER -> "none"

\* the answer of the API layer for its own errors
ApiError(res, c) == Send(Code(res, c), [kind |-> "apiError", code |-> c])

\* the answer of an API route that succeeds
ApiOk(res) == Send(res, [kind |-> "api"])

\* the SPA filter: a not-found condition outside the API prefix is answered
\* with the shell document, inside it with the API layer's 404
SpaFilter(res, p) ==
    IF IsUnderPrefix(p)
    THEN ApiError(res, 404)
    ELSE SendFile(
            Header(
                Header(
                    Header(Type(res, "text/html"),
                           "Cache-Control", "no-cache, no-store, must-revalidate"),
                    "Pragma", "no-cache"),
                "Expires", "0"),
            "/index.html")

(* ------------------------------------------------------------------ *)
(* Initial state                                                       *)
(* ------------------------------------------------------------------ *)

Idle == [stage |-> "idle", method |-> "", path |-> "", host |-> Undef,
         handler |-> "", res |-> NewResponse([connectSrc |-> ""]),
         checked |-> FALSE, read |-> FALSE,
         fileAtCheck |-> Absent, fileAtRead |-> Absent]

Init ==
    /\ phase = "start"
    /\ startupConfig = [cspWsOveride |-> Undef]
    /\ config = [loginWallpaper |-> Undef]
    /\ fs \in FileContents \cup {Absent}
    /\ reqs = [r \in ReqIds |-> Idle]
    /\ log = <<>>
    /\ received = 0

(* ------------------------------------------------------------------ *)
(* bootstrap()                                                         *)
(* ------------------------------------------------------------------ *)

\* await getStartupConfig() resolves
GetStartupConfig ==
    /\ phase = "start"
    /\ \E o \in WsOverrides : startupConfig' = [cspWsOveride |-> o]
    /\ phase' = "configLoaded"
    /\ UNCHANGED <<config, fs, reqs, log, received>>

\* await getStartupConfig() rejects: bootstrap() ends there
GetStartupConfigFails ==
    /\ phase = "start"
    /\ phase' = "failed"
    /\ UNCHANGED <<startupConfig, config, fs, reqs, log, received>>

\* await NestFactory.create(...): the application and its ConfigService exist
CreateApp ==
    /\ phase = "configLoaded"
    /\ \E w \in WallpaperPaths : config' = [loginWallpaper |-> w]
    /\ phase' = "created"
    /\ UNCHANGED <<startupConfig, fs, reqs, log, received>>

\* the registrations, the startup line and app.listen; the version and the
\* port the line names are not part of the state
Listen ==
    /\ phase = "created"
    /\ log' = Append(log, [level |-> "warn", msg |-> "Console is listening"])
    /\ phase' = "listening"
    /\ UNCHANGED <<startupConfig, config, fs, reqs, received>>

(* ------------------------------------------------------------------ *)
(* Requests                                                            *)
(* ------------------------------------------------------------------ *)

CanAccept(r) ==
    /\ phase = "listening"
    /\ reqs[r].stage = "idle"
    /\ received < MaxRequests

\* the reply as the security middleware hands it to the router
Helmet(h) == NewResponse(CspDirectives([host |-> h], startupConfig))

Accept(r, m, p, h, handler, stage, res) ==
    /\ reqs' = [reqs EXCEPT ![r] = [Idle EXCEPT !.stage = stage, !.method = m,
                                        !.path = p, !.host = h,
                                        !.handler = handler, !.res = res]]
    /\ received' = received + 1

HandleIndex(r) ==
    /\ CanAccept(r)
    /\ \E m \in Methods, p \in Paths, h \in HostHeaders :
        /\ Route(m, p) = "index"
        /\ Accept(r, m, p, h, "index", "done", IndexHandler(Helmet(h)))
    /\ UNCHANGED <<phase, startupConfig, config, fs, log>>

HandleStatic(r) ==
    /\ CanAccept(r)
    /\ \E m \in Methods, p \in Paths, h \in HostHeaders :
        /\ Route(m, p) = "static"
        /\ Accept(r, m, p, h, "static", "done", ServeStatic(Helmet(h), p))
    /\ UNCHANGED <<phase, startupConfig, config, fs, log>>

\* GET /assets/snapshot.jpg up to its first await
HandleWallpaper(r) ==
    /\ CanAccept(r)
    /\ \E m \in Methods, p \in Paths, h \in HostHeaders :
        /\ Route(m, p) = "wallpaper"
        /\ IF Truthy(config.loginWallpaper)
           THEN Accept(r, m, p, h, "wallpaper", "checking", Helmet(h))
           ELSE Accept(r, m, p, h, "wallpaper", "done", WallpaperDefault(Helmet(h)))
    /\ UNCHANGED <<phase, startupConfig, config, fs, log>>

\* await fs.pathExists(...) resolves and the handler runs to its next await
WallpaperChecked(r) ==
    /\ reqs[r].stage = "checking"
    /\ IF ~PathExists(fs)
       THEN /\ log' = Append(log, WallpaperMissingLog(config.loginWallpaper))
            /\ reqs' = [reqs EXCEPT ![r].stage = "done",
                                    ![r].checked = TRUE,
                                    ![r].fileAtCheck = fs,
                                    ![r].res = WallpaperNotFound(@)]
       ELSE /\ log' = log
            /\ reqs' = [reqs EXCEPT ![r].stage = "reading",
                                    ![r].checked = TRUE,
                                    ![r].fileAtCheck = fs,
                                    ![r].res = WallpaperHeaders(@)]
    /\ UNCHANGED <<phase, startupConfig, config, fs, received>>

\* await fs.readFile(...) settles
WallpaperRead(r) ==
    /\ reqs[r].stage = "reading"
    /\ reqs' = [reqs EXCEPT ![r].stage = "done",
                            ![r].read = TRUE,
                            ![r].fileAtRead = fs,
                            ![r].res = IF fs = Absent
                                       THEN HandlerRejected(@)
                                       ELSE WallpaperSend(@, fs)]
    /\ UNCHANGED <<phase, startupConfig, config, fs, log, received>>

\* a route of the API: it answers, or raises not-found, or fails otherwise
HandleApi(r) ==
    /\ CanAccept(r)
    /\ \E m \in Methods, p \in Paths, h \in HostHeaders :
        /\ Route(m, p) = "api"
        /\ \E outcome \in {"ok", "notFound", "error"} :
            Accept(r, m, p, h, "api", "done",
                   CASE outcome = "ok" -> ApiOk(Helmet(h))
                     [] outcome = "notFound" -> SpaFilter(Helmet(h), p)
                     [] outcome = "error" -> ApiError(Helmet(h), 500))
    /\ UNCHANGED <<phase, startupConfig, config, fs, log>>

\* nothing matched: the not-found condition reaches the global filter
HandleUnmatched(r) ==
    /\ CanAccept(r)
    /\ \E m \in Methods, p \in Paths, h \in HostHeaders :
        /\ Route(m, p) = "none"
        /\ Accept(r, m, p, h, "filter", "done", SpaFilter(Helmet(h), p))
    /\ UNCHANGED <<phase, startupConfig, config, fs, log>>

\* the reply has gone out and the connection takes the next request
Close(r) ==
    /\ reqs[r].stage = "done"
    /\ reqs' = [reqs EXCEPT ![r] = Idle]
    /\ UNCHANGED <<phase, startupConfig, config, fs, log, received>>

(* ------------------------------------------------------------------ *)
(* The operator changes the wallpaper file while the server runs       *)
(* ------------------------------------------------------------------ *)

FsWrite ==
    /\ \E c \in FileContents : c # fs /\ fs' = c
    /\ UNCHANGED <<phase, startupConfig, config, reqs, log, received>>

FsRemove ==
    /\ fs # Absent
    /\ fs' = Absent
    /\ UNCHANGED <<phase, startupConfig, config, reqs, log, received>>

Next ==
    \/ GetStartupConfig
    \/ GetStartupConfigFails
    \/ CreateApp
    \/ Listen
    \/ \E r \in ReqIds : HandleIndex(r)
    \/ \E r \in ReqIds : HandleStatic(r)
    \/ \E r \in ReqIds : HandleWallpaper(r)
    \/ \E r \in ReqIds : WallpaperChecked(r)
    \/ \E r \in ReqIds : WallpaperRead(r)
    \/ \E r \in ReqIds : HandleApi(r)
    \/ \E r \in ReqIds : HandleUnmatched(r)
    \/ \E r \in ReqIds : Close(r)
    \/ FsWrite
    \/ FsRemove

Spec == Init /\ [][Next]_vars

(* ------------------------------------------------------------------ *)
(* Vocabulary of the properties                                        *)
(* ------------------------------------------------------------------ *)

Done(r) == reqs[r].stage = "done"
InFlight(r) == reqs[r].stage # "idle"

\* the header set of the immutable-long-cache class, as the handlers write it
IsImmutableSet(h) ==
    /\ HasHeader(h, "Cache-Control")
    /\ h["Cache-Control"] = "public,max-age=31536000,immutable"
    /\ ~HasHeader(h, "Pragma")
    /\ ~HasHeader(h, "Expires")

\* the header set of the no-cache class
IsNoCacheSet(h) ==
    /\ HasHeader(h, "Cache-Control")
    /\ h["Cache-Control"] = "no-cache, no-store, must-revalidate"
    /\ HasHeader(h, "Pragma") /\ h["Pragma"] = "no-cache"
    /\ HasHeader(h, "Expires") /\ h["Expires"] = "0"

NoCacheHeaders(h) ==
    ~HasHeader(h, "Cache-Control") /\ ~HasHeader(h, "Pragma") /\ ~HasHeader(h, "Expires")

ExactlyOneClass(h) ==
    (IsImmutableSet(h) \/ IsNoCacheSet(h)) /\ ~(IsImmutableSet(h) /\ IsNoCacheSet(h))

\* the path lies under /api, whatever prefix the application registered
UnderApi(p) == p = "/api" \/ (Len(p) > Len("/api") /\ SubSeq(p, 1, Len("/api/")) = "/api/")

Shell == FileBody("/index.html")

\* replies of the core: the explicit routes, the static root and the fallback
\* outside /api
CoreReply(r) ==
    /\ Done(r)
    /\ \/ reqs[r].handler \in {"index", "static", "wallpaper"}
       \/ reqs[r].handler = "filter" /\ ~UnderApi(reqs[r].path)

CustomWallpaper == Truthy(config.loginWallpaper)

ErrorLines == {i \in 1..Len(log) : log[i].level = "error"}

(* ------------------------------------------------------------------ *)
(* C1                                                                  *)
(* ------------------------------------------------------------------ *)

ServesAsset(r) ==
    /\ Done(r)
    /\ \/ reqs[r].handler = "static"
       \/ reqs[r].handler = "wallpaper" /\ reqs[r].res.status = 200

\* C2 as stated: static files and served wallpaper images carry Cache-Control
\* equal to "public, max-age=31536000, immutable" and no no-cache header.
C2_AsStated ==
    \A r \in ReqIds :
        ServesAsset(r) =>
            /\ HasHeader(reqs[r].res.headers, "Cache-Control")
            /\ reqs[r].res.headers["Cache-Control"] = "public, max-age=31536000, immutable"
            /\ ~HasHeader(reqs[r].res.headers, "Pragma")
            /\ ~HasHeader(reqs[r].res.headers, "Expires")

\* C2 amended: static files and served wallpaper images carry Cache-Control
\* equal to "public,max-age=31536000,immutable" (no blank after the commas)
\* and neither Pragma nor Expires.
C2_StaticImmutable ==
    \A r \in ReqIds :
        ServesAsset(r) =>
            /\ HasHeader(reqs[r].res.headers, "Cache-Control")
            /\ reqs[r].res.headers["Cache-Control"] = "public,max-age=31536000,immutable"
            /\ ~HasHeader(reqs[r].res.headers, "Pragma")
            /\ ~HasHeader(reqs[r].res.headers, "Expires")

C2_Witness ==
    \E r1, r2 \in ReqIds :
        /\ ServesAsset(r1) /\ reqs[r1].handler = "static"
        /\ ServesAsset(r2) /\ reqs[r2].handler = "wallpaper"

(* ------------------------------------------------------------------ *)
(* C3                                                                  *)
(* ------------------------------------------------------------------ *)

ShellReply(r) ==
    /\ Done(r)
    /\ \/ reqs[r].method = "GET" /\ reqs[r].path = "/"
       \/ reqs[r].handler = "filter" /\ ~UnderApi(reqs[r].path)

EndsWith(s, suffix) ==
    Len(s) >= Len(suffix) /\ SubSeq(s, Len(s) - Len(suffix) + 1, Len(s)) = suffix

\* the step in which connection r learns the result of its existence check
CheckStep(r) == reqs[r].stage = "checking" /\ reqs'[r].stage # "checking"

\* C5: when the existence check of a configured wallpaper finds no file, the
\* request ends there with status 404 and the plain body "Not Found", exactly
\* one line is logged, an error naming the configured path, the file is not
\* read and no image is sent.
C5_MissingWallpaper404 ==
    [][\A r \in ReqIds :
        CheckStep(r) /\ fs = Absent =>
            /\ reqs'[r].stage = "done"
            /\ reqs'[r].res.status = 404
            /\ reqs'[r].res.body = TextBody("Not Found")
            /\ ~reqs'[r].read
            /\ Len(log') = Len(log) + 1
            /\ SubSeq(log', 1, Len(log)) = log
            /\ log'[Len(log')].level = "error"
            /\ EndsWith(log'[Len(log')].msg, config.loginWallpaper.v)]_vars

C5_Witness ==
    \E r \in ReqIds :
        /\ Done(r) /\ reqs[r].handler = "wallpaper" /\ reqs[r].checked
        /\ reqs[r].fileAtCheck = Absent /\ reqs[r].res.status = 404
        /\ ErrorLines # {}

(* ------------------------------------------------------------------ *)
(* C6                                                                  *)
(* ------------------------------------------------------------------ *)

\* C6: the outcome of a wallpaper request follows the file as it is during
\* that request, whatever earlier requests found: 404 exactly when the file is
\* missing at the check, the image when it is there at the check and at the
\* read; and the server is still listening after any number of 404s.
C6_ExistenceNotCached ==
    /\ \A r \in ReqIds :
        Done(r) /\ reqs[r].handler = "wallpaper" /\ CustomWallpaper =>
            /\ reqs[r].checked
            /\ reqs[r].res.status = 404 <=> reqs[r].fileAtCheck = Absent
            /\ reqs[r].fileAtCheck # Absent /\ reqs[r].fileAtRead # Absent =>
                /\ reqs[r].res.status = 200
                /\ reqs[r].res.body = BytesBody(reqs[r].fileAtRead)
    /\ ErrorLines # {} => phase = "listening"

\* a 404 was answered earlier, and now the image is served
C6_Witness ==
    /\ Cardinality(ErrorLines) >= 2
    /\ \E r \in ReqIds :
        /\ Done(r) /\ reqs[r].handler = "wallpaper"
        /\ reqs[r].res.status = 200 /\ reqs[r].res.body.kind = "bytes"

(* ------------------------------------------------------------------ *)
(* C7                                                                  *)
(* ------------------------------------------------------------------ *)

\* C7: with a custom wallpaper whose file exists, the body is the bytes of
\* that file, Content-Type is image/jpg and the cache headers are the
\* immutable set; with no custom wallpaper the bundled image is served with
\* the immutable set and neither the existence check nor the read happens.
C7_WallpaperServed ==
    \A r \in ReqIds :
        Done(r) /\ reqs[r].handler = "wallpaper" =>
            /\ CustomWallpaper /\ reqs[r].fileAtCheck # Absent /\ reqs[r].fileAtRead # Absent =>
                /\ reqs[r].res.status = 200
                /\ reqs[r].res.body = BytesBody(reqs[r].fileAtRead)
                /\ HasHeader(reqs[r].res.headers, "Content-Type")
                /\ reqs[r].res.headers["Content-Type"] = "image/jpg"
                /\ IsImmutableSet(reqs[r].res.headers)
            /\ ~CustomWallpaper =>
                /\ reqs[r].res.status = 200
                /\ reqs[r].res.body = FileBody("/assets/snapshot.jpg")
                /\ IsImmutableSet(reqs[r].res.headers)
                /\ ~reqs[r].checked /\ ~reqs[r].read

\* the file was replaced between the check and the read, and the bytes sent
\* are those read
C7_Witness ==
    \E r \in ReqIds :
        /\ Done(r) /\ reqs[r].handler = "wallpaper" /\ CustomWallpaper
        /\ reqs[r].fileAtCheck # Absent /\ reqs[r].fileAtRead # Absent
        /\ reqs[r].fileAtCheck # reqs[r].fileAtRead
        /\ reqs[r].res.body.kind = "bytes"

(* ------------------------------------------------------------------ *)
(* C8                                                                  *)
(* ------------------------------------------------------------------ *)

\* C8: every wallpaper request with a custom wallpaper ends in the image or
\* in the logged 404 "Not Found", whenever the file is removed; no failure
\* leaves a handler unhandled, and only a failed configuration load, before
\* listening, stops the process.
C8_FailuresHandledLocally ==
    /\ \A r \in ReqIds :
        Done(r) /\ reqs[r].handler = "wallpaper" /\ CustomWallpaper =>
            \/ reqs[r].res.status = 200 /\ reqs[r].res.body.kind = "bytes"
            \/ /\ reqs[r].res.status = 404
               /\ reqs[r].res.body = TextBody("Not Found")
               /\ ErrorLines # {}
    /\ \A r \in ReqIds : reqs[r].res.body.kind # "error"
    /\ phase = "failed" => received = 0 /\ log = <<>>

(* ------------------------------------------------------------------ *)
(* C9                                                                  *)
(* ------------------------------------------------------------------ *)

\* the operator's override as a string, empty when none is configured
OverrideString ==
    IF startupConfig.cspWsOveride.t = "undefined" THEN "" ELSE startupConfig.cspWsOveride.v

HasHost(r) == InFlight(r) /\ reqs[r].host.t = "string"

\* C9: for a request with host header h and override o the connect-src
\* directive is 'self' wss://h ws://h o, and requests with different host
\* headers get different directives.
C9_ConnectSrcPerRequest ==
    /\ \A r \in ReqIds :
        HasHost(r) =>
            reqs[r].res.csp.connectSrc =
                "'self' wss://" \o reqs[r].host.v \o " ws://" \o reqs[r].host.v
                    \o " " \o OverrideString
    /\ \A r1, r2 \in ReqIds :
        HasHost(r1) /\ HasHost(r2) /\ reqs[r1].host # reqs[r2].host =>
            reqs[r1].res.csp.connectSrc # reqs[r2].res.csp.connectSrc

C9_Witness ==
    \E r1, r2 \in ReqIds :
        /\ HasHost(r1) /\ HasHost(r2) /\ reqs[r1].host # reqs[r2].host
        /\ OverrideString = "wss://extra.example"
        /\ reqs[r1].res.csp.connectSrc =
              "'self' wss://example.com:8080 ws://example.com:8080 wss://extra.example"

(* ------------------------------------------------------------------ *)
(* C10                                                                 *)
(* ------------------------------------------------------------------ *)

\* C10: for a request without a host header the connect-src directive is
\* 'self' wss:// ws:// followed by the override, the host substring empty.
C10_AbsentHostEmpty ==
    \A r \in ReqIds :
        InFlight(r) /\ reqs[r].host = Undef =>
            reqs[r].res.csp.connectSrc = "'self' wss:// ws:// " \o OverrideString

====
